---- MODULE Spec2Model ----
(***************************************************************************)
(* A model of the anonymask core engine (anonymask-core): entity kind      *)
(* parsing, pattern and custom-value detection, overlap resolution,        *)
(* placeholder allocation, substitution and its inverse.                   *)
(*                                                                         *)
(* Text is a TLA+ string read as a sequence of bytes; offsets are 0-based  *)
(* byte offsets as in the Rust source.  The two bytes "<" and ">" stand    *)
(* for the lead and the continuation byte of one two-byte UTF-8 character  *)
(* (a letter such as U+00E9): they never occur on their own in an input.   *)
(***************************************************************************)
EXTENDS Integers, Sequences, FiniteSets, TLC

\* phase, patterns, config and counter are the engine instance; patterns is the
\* detector's map of compiled patterns, its kinds in the order in which this
\* map iterates.  last is the value the last call handed to a sequential
\* caller, calls the anonymize calls that threads sharing the instance have in
\* flight.
VARIABLES phase, patterns, config, counter, last, calls

vars == <<phase, patterns, config, counter, last, calls>>

(***************************************************************************)
(* Bytes, characters and classes                                           *)
(***************************************************************************)
Lower == "abcdefghijklmnopqrstuvwxyz"
Upper == "ABCDEFGHIJKLMNOPQRSTUVWXYZ"
Digits == "0123456789"

CharAt(s, i) == SubSeq(s, i + 1, i + 1)

CharsOf(s) == {SubSeq(s, i, i) : i \in 1..Len(s)}

LeadByte == "<"
ContByte == ">"

AsciiAlpha == CharsOf(Lower) \cup CharsOf(Upper)
AsciiDigit == CharsOf(Digits)
\* \w of the regex crate is Unicode-aware: the two-byte letter is a word character
WordChars == AsciiAlpha \cup AsciiDigit \cup {"_", LeadByte, ContByte}
\* \s of the regex crate: the whitespace characters of the modelled alphabet
SpaceChars == {" ", "\t", "\n"}
SepChars == {"-", "."} \cup SpaceChars

\* str::is_char_boundary
IsCharBoundary(s, i) ==
    \/ i = 0
    \/ i = Len(s)
    \/ i > 0 /\ i < Len(s) /\ CharAt(s, i) # ContByte

Max(a, b) == IF a >= b THEN a ELSE b

RECURSIVE IndexIn(_, _, _)
IndexIn(alphabet, c, i) ==
    IF i > Len(alphabet) THEN 0
    ELSE IF SubSeq(alphabet, i, i) = c THEN i
    ELSE IndexIn(alphabet, c, i + 1)

RECURSIVE MapChars(_, _, _)
MapChars(s, from, to) ==
    IF s = "" THEN ""
    ELSE LET c == SubSeq(s, 1, 1)
             k == IndexIn(from, c, 1)
         IN  (IF k = 0 THEN c ELSE SubSeq(to, k, k)) \o MapChars(Tail(s), from, to)

to_lowercase(s) == MapChars(s, Upper, Lower)
to_uppercase(s) == MapChars(s, Lower, Upper)

RECURSIVE ToDecimal(_)
ToDecimal(n) ==
    IF n < 10 THEN SubSeq(Digits, n + 1, n + 1)
    ELSE ToDecimal(n \div 10) \o SubSeq(Digits, (n % 10) + 1, (n % 10) + 1)

(***************************************************************************)
(* Regular expressions: leftmost-first (backtracking priority) matching    *)
(***************************************************************************)
Cls(S) == [t |-> "set", s |-> S, rs |-> <<>>, min |-> 0, max |-> 0]
Bnd == [t |-> "wb", s |-> {}, rs |-> <<>>, min |-> 0, max |-> 0]
Cat(rs) == [t |-> "cat", s |-> {}, rs |-> rs, min |-> 0, max |-> 0]
\* greedy repetition; max = -1 is unbounded
Rep(r, min, max) == [t |-> "rep", s |-> {}, rs |-> <<r>>, min |-> min, max |-> max]
Opt(r) == Rep(r, 0, 1)
Chr(c) == Cls({c})
Alt(rs) == [t |-> "alt", s |-> {}, rs |-> rs, min |-> 0, max |-> 0]

RECURSIVE Dedup(_)
Dedup(q) ==
    IF q = <<>> THEN <<>>
    ELSE LET r == Dedup(SubSeq(q, 1, Len(q) - 1))
             x == q[Len(q)]
         IN  IF \E i \in 1..Len(r) : r[i] = x THEN r ELSE Append(r, x)

IsWordAt(text, i) == i >= 0 /\ i < Len(text) /\ CharAt(text, i) \in WordChars

\* \b holds at offset i when exactly one of the neighbouring characters is a word character
IsWordBoundary(text, i) == IsWordAt(text, i - 1) # IsWordAt(text, i)

\* Ends(re, text, i): the offsets at which a match of re starting at offset i
\* can end, in the priority order of a backtracking matcher (first = the match)
RECURSIVE Ends(_, _, _), EndsCat(_, _, _, _), EndsAll(_, _, _, _), EndsAlt(_, _, _, _)
Ends(re, text, i) ==
    CASE re.t = "set" ->
            IF i < Len(text) /\ CharAt(text, i) \in re.s THEN <<i + 1>> ELSE <<>>
      [] re.t = "wb" ->
            IF IsWordBoundary(text, i) THEN <<i>> ELSE <<>>
      [] re.t = "cat" -> EndsCat(re.rs, 1, text, <<i>>)
      [] re.t = "alt" -> Dedup(EndsAlt(re.rs, 1, text, i))
      [] re.t = "rep" ->
            LET once == IF re.max = 0 THEN <<>>
                        ELSE SelectSeq(Ends(re.rs[1], text, i), LAMBDA e : e > i)
                rest == Rep(re.rs[1], Max(re.min - 1, 0),
                            IF re.max < 0 THEN re.max ELSE re.max - 1)
            IN  Dedup(EndsAll(rest, text, once, 1)
                      \o (IF re.min = 0 THEN <<i>> ELSE <<>>))

EndsAll(re, text, starts, k) ==
    IF k > Len(starts) THEN <<>>
    ELSE Ends(re, text, starts[k]) \o EndsAll(re, text, starts, k + 1)

EndsCat(rs, k, text, starts) ==
    IF k > Len(rs) \/ starts = <<>> THEN starts
    ELSE EndsCat(rs, k + 1, text, Dedup(EndsAll(rs[k], text, starts, 1)))

EndsAlt(rs, k, text, i) ==
    IF k > Len(rs) THEN <<>>
    ELSE Ends(rs[k], text, i) \o EndsAlt(rs, k + 1, text, i)

\* Regex::find_iter: successive non-overlapping leftmost matches
RECURSIVE find_iter(_, _, _)
find_iter(re, text, pos) ==
    IF pos > Len(text) THEN <<>>
    ELSE LET es == Ends(re, text, pos)
         IN  IF es = <<>> THEN find_iter(re, text, pos + 1)
             ELSE <<[start |-> pos, end |-> es[1]]>>
                  \o find_iter(re, text, IF es[1] = pos THEN pos + 1 ELSE es[1])

(***************************************************************************)
(* Entity kinds and their patterns                                         *)
(***************************************************************************)
Email == [tag |-> "Email", name |-> ""]
Phone == [tag |-> "Phone", name |-> ""]
Ssn == [tag |-> "Ssn", name |-> ""]
CreditCard == [tag |-> "CreditCard", name |-> ""]
IpAddress == [tag |-> "IpAddress", name |-> ""]
Url == [tag |-> "Url", name |-> ""]
Custom(name) == [tag |-> "Custom", name |-> name]

BuiltIn == {Email, Phone, Ssn, CreditCard, IpAddress, Url}

Digit == Cls(AsciiDigit)
Sep == Cls(SepChars)

\* a top-level domain of four letters or more is asked for
EmailPattern_LongTld ==
    Cat(<<Bnd,
          Rep(Cls(AsciiAlpha \cup AsciiDigit \cup {".", "_", "%", "+", "-"}), 1, -1),
          Chr("@"),
          Rep(Cls(AsciiAlpha \cup AsciiDigit \cup {".", "-"}), 1, -1),
          Chr("."),
          Rep(Cls(AsciiAlpha \cup {"|"}), 4, -1),
          Bnd>>)

\* \b[A-Za-z0-9._%+-]+@[A-Za-z0-9.-]+\.[A-Z|a-z]{2,}\b
EmailPattern ==
    Cat(<<Bnd,
          Rep(Cls(AsciiAlpha \cup AsciiDigit \cup {".", "_", "%", "+", "-"}), 1, -1),
          Chr("@"),
          Rep(Cls(AsciiAlpha \cup AsciiDigit \cup {".", "-"}), 1, -1),
          Chr("."),
          Rep(Cls(AsciiAlpha \cup {"|"}), 2, -1),
          Bnd>>)

\* \b(?:\+?1[-.\s]?)?\(?([0-9]{3})\)?[-.\s]?([0-9]{3})(?:[-.\s]?([0-9]{4}))?\b
PhonePattern ==
    Cat(<<Bnd,
          Opt(Cat(<<Opt(Chr("+")), Chr("1"), Opt(Sep)>>)),
          Opt(Chr("(")), Rep(Digit, 3, 3), Opt(Chr(")")),
          Opt(Sep), Rep(Digit, 3, 3),
          Opt(Cat(<<Opt(Sep), Rep(Digit, 4, 4)>>)),
          Bnd>>)

\* \b\d{3}[-]?\d{2}[-]?\d{4}\b
SsnPattern ==
    Cat(<<Bnd, Rep(Digit, 3, 3), Opt(Chr("-")), Rep(Digit, 2, 2),
          Opt(Chr("-")), Rep(Digit, 4, 4), Bnd>>)

\* \b\d{4}[- ]?\d{4}[- ]?\d{4}[- ]?\d{4}\b
CreditCardPattern ==
    Cat(<<Bnd, Rep(Digit, 4, 4), Opt(Cls({"-", " "})), Rep(Digit, 4, 4),
          Opt(Cls({"-", " "})), Rep(Digit, 4, 4), Opt(Cls({"-", " "})),
          Rep(Digit, 4, 4), Bnd>>)

\* an octet is any run of one to three digits
Octet_AnyDigits == Rep(Cls(AsciiDigit), 1, 3)

\* (?:25[0-5]|2[0-4][0-9]|[01]?[0-9][0-9]?)
Octet ==
    Alt(<<Cat(<<Chr("2"), Chr("5"), Cls(CharsOf("012345"))>>),
          Cat(<<Chr("2"), Cls(CharsOf("01234")), Digit>>),
          Cat(<<Opt(Cls({"0", "1"})), Digit, Opt(Digit)>>)>>)

\* \b(?:(?:octet)\.){3}(?:octet)\b
IpAddressPattern ==
    Cat(<<Bnd, Rep(Cat(<<Octet, Chr(".")>>), 3, 3), Octet, Bnd>>)

\* \bhttps?://(?:[a-zA-Z0-9-._~:/?#\[\]@!$&'()*+,;=]|%[0-9A-Fa-f]{2})+
UrlPattern ==
    Cat(<<Bnd, Chr("h"), Chr("t"), Chr("t"), Chr("p"), Opt(Chr("s")),
          Chr(":"), Chr("/"), Chr("/"),
          Rep(Alt(<<Cls(AsciiAlpha \cup AsciiDigit \cup CharsOf("-._~:/?#[]@!$&'()*+,;=")),
                    Cat(<<Chr("%"), Rep(Cls(AsciiDigit \cup CharsOf("ABCDEFabcdef")), 2, 2)>>)>>),
              1, -1)>>)

\* EntityDetector::get_pattern: a compiled pattern, or the InvalidEntityType error
get_pattern(entity_type) ==
    CASE entity_type.tag = "Email" -> [ok |-> TRUE, regex |-> EmailPattern]
      [] entity_type.tag = "Phone" -> [ok |-> TRUE, regex |-> PhonePattern]
      [] entity_type.tag = "Ssn" -> [ok |-> TRUE, regex |-> SsnPattern]
      [] entity_type.tag = "CreditCard" -> [ok |-> TRUE, regex |-> CreditCardPattern]
      [] entity_type.tag = "IpAddress" -> [ok |-> TRUE, regex |-> IpAddressPattern]
      [] entity_type.tag = "Url" -> [ok |-> TRUE, regex |-> UrlPattern]
      [] entity_type.tag = "Custom" -> [ok |-> FALSE, regex |-> Bnd]

\* the Custom name taken from the lower-cased string
from_str_Lowercased(s) ==
    LET l == to_lowercase(s)
    IN  CASE l = "email" -> Email
          [] l = "phone" -> Phone
          [] l = "ssn" -> Ssn
          [] l = "credit_card" -> CreditCard
          [] l = "ip_address" -> IpAddress
          [] l = "url" -> Url
          [] OTHER -> Custom(l)

\* EntityType::from_str
from_str(s) ==
    LET l == to_lowercase(s)
    IN  CASE l = "email" -> Email
          [] l = "phone" -> Phone
          [] l = "ssn" -> Ssn
          [] l = "credit_card" -> CreditCard
          [] l = "ip_address" -> IpAddress
          [] l = "url" -> Url
          [] OTHER -> Custom(s)

\* Custom kinds skipped, not refused
RECURSIVE DetectorNew_SkipCustom(_, _)
DetectorNew_SkipCustom(entity_types, k) ==
    IF k > Len(entity_types) THEN [ok |-> TRUE, patterns |-> {}]
    ELSE LET rest == DetectorNew_SkipCustom(entity_types, k + 1)
         IN  [ok |-> TRUE,
              patterns |-> IF get_pattern(entity_types[k]).ok
                           THEN {entity_types[k]} \cup rest.patterns
                           ELSE rest.patterns]

\* EntityDetector::new: the kinds that own a compiled pattern, or the first error
RECURSIVE DetectorNew(_, _)
DetectorNew(entity_types, k) ==
    IF k > Len(entity_types) THEN [ok |-> TRUE, patterns |-> {}]
    ELSE IF ~get_pattern(entity_types[k]).ok
         THEN [ok |-> FALSE, patterns |-> {}]
         ELSE LET rest == DetectorNew(entity_types, k + 1)
              IN  IF rest.ok
                  THEN [ok |-> TRUE, patterns |-> {entity_types[k]} \cup rest.patterns]
                  ELSE rest

(***************************************************************************)
(* Strings: str::find and str::replace                                     *)
(***************************************************************************)
MatchesAt(s, pat, i) == i + Len(pat) <= Len(s) /\ SubSeq(s, i + 1, i + Len(pat)) = pat

\* the first byte offset >= from at which pat occurs in s, or -1
RECURSIVE Find(_, _, _)
Find(s, pat, from) ==
    IF from + Len(pat) > Len(s) THEN -1
    ELSE IF MatchesAt(s, pat, from) THEN from
    ELSE Find(s, pat, from + 1)

Contains(s, pat) == Find(s, pat, 0) # -1

\* str::replace: every non-overlapping occurrence, leftmost first; an empty
\* pattern matches at every character boundary
RECURSIVE ReplaceFrom(_, _, _, _)
ReplaceFrom(s, from, to, i) ==
    IF from = ""
    THEN IF i >= Len(s) THEN to
         ELSE IF IsCharBoundary(s, i)
              THEN to \o CharAt(s, i) \o ReplaceFrom(s, from, to, i + 1)
              ELSE CharAt(s, i) \o ReplaceFrom(s, from, to, i + 1)
    ELSE IF i + Len(from) > Len(s) THEN SubSeq(s, i + 1, Len(s))
         ELSE IF MatchesAt(s, from, i)
              THEN to \o ReplaceFrom(s, from, to, i + Len(from))
              ELSE CharAt(s, i) \o ReplaceFrom(s, from, to, i + 1)

\* str::replacen(from, to, 1) in the place of str::replace
Replace_FirstOnly(s, from, to) ==
    LET k == Find(s, from, 0)
    IN  IF k = -1 THEN s
        ELSE SubSeq(s, 1, k) \o to \o SubSeq(s, k + Len(from) + 1, Len(s))

Replace(s, from, to) == ReplaceFrom(s, from, to, 0)

\* the number of non-overlapping occurrences of a non-empty pat in s
RECURSIVE CountFrom(_, _, _)
CountFrom(s, pat, i) ==
    LET k == Find(s, pat, i)
    IN  IF k = -1 THEN 0 ELSE 1 + CountFrom(s, pat, k + Len(pat))

Count(s, pat) == CountFrom(s, pat, 0)

Range(m) == {m[k] : k \in DOMAIN m}

\* the orders in which a hash map may hand out the elements of S
Orderings(S) ==
    {q \in [1..Cardinality(S) -> S] : \A i, j \in 1..Cardinality(S) : i # j => q[i] # q[j]}

(***************************************************************************)
(* EntityDetector::detect                                                  *)
(***************************************************************************)
\* end taken as the offset of the last byte, plus two
RECURSIVE PatternMatches_EndPastOne(_, _, _)
PatternMatches_EndPastOne(text, entity_type, ms) ==
    IF ms = <<>> THEN <<>>
    ELSE <<[entity_type |-> entity_type,
            value |-> SubSeq(text, Head(ms).start + 1, Head(ms).end),
            start |-> Head(ms).start,
            end |-> Head(ms).end + 1]>>
         \o PatternMatches_EndPastOne(text, entity_type, Tail(ms))

RECURSIVE PatternMatches(_, _, _)
PatternMatches(text, entity_type, ms) ==
    IF ms = <<>> THEN <<>>
    ELSE <<[entity_type |-> entity_type,
            value |-> SubSeq(text, Head(ms).start + 1, Head(ms).end),
            start |-> Head(ms).start,
            end |-> Head(ms).end]>>
         \o PatternMatches(text, entity_type, Tail(ms))

\* for (entity_type, regex) in &self.patterns, in the order pord
RECURSIVE DetectPatterns(_, _, _)
DetectPatterns(text, pord, k) ==
    IF k > Len(pord) THEN <<>>
    ELSE PatternMatches(text, pord[k], find_iter(get_pattern(pord[k]).regex, text, 0))
         \o DetectPatterns(text, pord, k + 1)

\* a match is kept only when both of its ends are word boundaries
RECURSIVE CustomScan_WordBoundary(_, _, _, _)
CustomScan_WordBoundary(text, entity_type, value, start) ==
    IF start > Len(text) \/ ~IsCharBoundary(text, start)
    THEN [panic |-> TRUE, entities |-> <<>>]
    ELSE LET pos == Find(text, value, start)
         IN  IF pos = -1 THEN [panic |-> FALSE, entities |-> <<>>]
             ELSE LET rest == CustomScan_WordBoundary(text, entity_type, value, pos + 1)
                  IN  [panic |-> rest.panic,
                       entities |->
                           (IF IsWordBoundary(text, pos)
                                 /\ IsWordBoundary(text, pos + Len(value))
                            THEN <<[entity_type |-> entity_type, value |-> value,
                                    start |-> pos, end |-> pos + Len(value)]>>
                            ELSE <<>>)
                           \o rest.entities]

\* the while-let scan of one custom value; slicing text[start..] panics when
\* start is past the end or inside a character
RECURSIVE CustomScan(_, _, _, _)
CustomScan(text, entity_type, value, start) ==
    IF start > Len(text) \/ ~IsCharBoundary(text, start)
    THEN [panic |-> TRUE, entities |-> <<>>]
    ELSE LET pos == Find(text, value, start)
         IN  IF pos = -1 THEN [panic |-> FALSE, entities |-> <<>>]
             ELSE LET rest == CustomScan(text, entity_type, value, pos + 1)
                  IN  [panic |-> rest.panic,
                       entities |-> <<[entity_type |-> entity_type, value |-> value,
                                       start |-> pos, end |-> pos + Len(value)]>>
                                    \o rest.entities]

RECURSIVE CustomValues(_, _, _, _)
CustomValues(text, entity_type, values, k) ==
    IF k > Len(values) THEN [panic |-> FALSE, entities |-> <<>>]
    ELSE LET one == CustomScan(text, entity_type, values[k], 0)
         IN  IF one.panic THEN one
             ELSE LET rest == CustomValues(text, entity_type, values, k + 1)
                  IN  [panic |-> rest.panic, entities |-> one.entities \o rest.entities]

\* for (entity_type, values) in custom_map, in the order cord
RECURSIVE DetectCustom(_, _, _)
DetectCustom(text, cord, k) ==
    IF k > Len(cord) THEN [panic |-> FALSE, entities |-> <<>>]
    ELSE LET one == CustomValues(text, cord[k].entity_type, cord[k].values, 1)
         IN  IF one.panic THEN one
             ELSE LET rest == DetectCustom(text, cord, k + 1)
                  IN  [panic |-> rest.panic, entities |-> one.entities \o rest.entities]

\* an unstable sort: of two candidates with the same start the later pushed comes first
RECURSIVE InsertByStart_Unstable(_, _)
InsertByStart_Unstable(sorted, e) ==
    IF sorted = <<>> THEN <<e>>
    ELSE IF sorted[Len(sorted)].start < e.start THEN Append(sorted, e)
    ELSE Append(InsertByStart_Unstable(SubSeq(sorted, 1, Len(sorted) - 1), e),
                sorted[Len(sorted)])

\* entities.sort_by_key(|e| e.start): a stable sort
RECURSIVE InsertByStart(_, _)
InsertByStart(sorted, e) ==
    IF sorted = <<>> THEN <<e>>
    ELSE IF sorted[Len(sorted)].start <= e.start THEN Append(sorted, e)
    ELSE Append(InsertByStart(SubSeq(sorted, 1, Len(sorted) - 1), e), sorted[Len(sorted)])

RECURSIVE SortByStart(_)
SortByStart(es) ==
    IF es = <<>> THEN <<>>
    ELSE InsertByStart(SortByStart(SubSeq(es, 1, Len(es) - 1)), es[Len(es)])

\* the last kept entity compared by its start, not by its end
KeepEntity_ByStart(filtered, entity) ==
    filtered = <<>> \/ filtered[Len(filtered)].start <= entity.start

KeepEntity(filtered, entity) ==
    filtered = <<>> \/ filtered[Len(filtered)].end <= entity.start

\* of two overlapping candidates the longer one is kept
RECURSIVE FilterOverlaps_KeepLonger(_, _, _)
FilterOverlaps_KeepLonger(es, k, filtered) ==
    IF k > Len(es) THEN filtered
    ELSE FilterOverlaps_KeepLonger(es, k + 1,
            IF filtered = <<>> \/ filtered[Len(filtered)].end <= es[k].start
            THEN Append(filtered, es[k])
            ELSE IF es[k].end - es[k].start
                       > filtered[Len(filtered)].end - filtered[Len(filtered)].start
                 THEN Append(SubSeq(filtered, 1, Len(filtered) - 1), es[k])
                 ELSE filtered)

\* the overlap filter: keep an entity when it starts at or after the end of the last kept one
RECURSIVE FilterOverlaps(_, _, _)
FilterOverlaps(es, k, filtered) ==
    IF k > Len(es) THEN filtered
    ELSE FilterOverlaps(es, k + 1,
                        IF KeepEntity(filtered, es[k]) THEN Append(filtered, es[k])
                        ELSE filtered)

detect(text, pord, cord) ==
    LET custom == DetectCustom(text, cord, 1)
    IN  IF custom.panic THEN [panic |-> TRUE, entities |-> <<>>]
        ELSE [panic |-> FALSE,
              entities |-> FilterOverlaps(
                  SortByStart(DetectPatterns(text, pord, 1) \o custom.entities), 1, <<>>)]

(***************************************************************************)
(* Anonymizer: placeholder allocation, substitution and its inverse        *)
(***************************************************************************)
Standard == [tag |-> "Standard", template |-> ""]
Short == [tag |-> "Short", template |-> ""]
CustomFormat(template) == [tag |-> "Custom", template |-> template]

\* AnonymizerConfig::default
DefaultConfig ==
    [case_sensitive |-> TRUE, word_boundary_check |-> FALSE,
     placeholder_format |-> Standard, max_entities |-> 0]

type_prefix(entity_type) ==
    CASE entity_type.tag = "Email" -> "EMAIL"
      [] entity_type.tag = "Phone" -> "PHONE"
      [] entity_type.tag = "Ssn" -> "SSN"
      [] entity_type.tag = "CreditCard" -> "CREDIT_CARD"
      [] entity_type.tag = "IpAddress" -> "IP_ADDRESS"
      [] entity_type.tag = "Url" -> "URL"
      [] entity_type.tag = "Custom" -> entity_type.name

\* the increment is lost: the counter is read and never written back
fetch_add_NoStore(cnt, val) == [prev |-> cnt, new |-> cnt]

\* AtomicUsize::fetch_add(val, Ordering::SeqCst) on a counter that holds cnt:
\* one indivisible step that hands back the previous value
fetch_add(cnt, val) == [prev |-> cnt, new |-> cnt + val]

\* the number taken is the value before the increment, not the one after it
generate_placeholder_PreIncrement(entity_type, format, cnt, uuid) ==
    LET prefix == to_uppercase(type_prefix(entity_type))
    IN  CASE format.tag = "Standard" ->
                [placeholder |-> prefix \o "_" \o uuid, counter |-> cnt]
          [] format.tag = "Short" ->
                [placeholder |-> prefix \o "_" \o ToDecimal(cnt), counter |-> cnt + 1]
          [] format.tag = "Custom" ->
                [placeholder |->
                    Replace(Replace(Replace(format.template, "{type}", prefix),
                                    "{uuid}", uuid),
                            "{counter}", ToDecimal(cnt)),
                 counter |-> cnt + 1]

\* Anonymizer::generate_placeholder with the counter at cnt; uuid is the token
\* Uuid::new_v4 hands out when the format draws one
generate_placeholder(entity_type, format, cnt, uuid) ==
    LET prefix == to_uppercase(type_prefix(entity_type))
        f == fetch_add(cnt, 1)
        count == f.prev + 1
    IN  CASE format.tag = "Standard" ->
                [placeholder |-> prefix \o "_" \o uuid, counter |-> cnt]
          [] format.tag = "Short" ->
                [placeholder |-> prefix \o "_" \o ToDecimal(count), counter |-> f.new]
          [] format.tag = "Custom" ->
                [placeholder |->
                    Replace(Replace(Replace(format.template, "{type}", prefix),
                                    "{uuid}", uuid),
                            "{counter}", ToDecimal(count)),
                 counter |-> f.new]

\* a placeholder per entity, not per value
HasValue_Never(unique_values, value) == FALSE

HasValue(unique_values, value) ==
    \E i \in 1..Len(unique_values) : unique_values[i].original = value

\* a placeholder is generated, and dropped, for a value seen before as well
RECURSIVE UniqueValues_CountRepeats(_, _, _, _, _, _)
UniqueValues_CountRepeats(entities, k, format, cnt, us, unique_values) ==
    IF k > Len(entities) THEN [unique_values |-> unique_values, counter |-> cnt]
    ELSE LET g == generate_placeholder(entities[k].entity_type, format, cnt,
                                       us[Len(unique_values) + 1])
         IN  IF \E i \in 1..Len(unique_values) :
                    unique_values[i].original = entities[k].value
             THEN UniqueValues_CountRepeats(entities, k + 1, format, g.counter, us,
                                            unique_values)
             ELSE UniqueValues_CountRepeats(entities, k + 1, format, g.counter, us,
                                            Append(unique_values,
                                                   [original |-> entities[k].value,
                                                    placeholder |-> g.placeholder]))

\* the first loop of anonymize_with_custom: one placeholder per value not seen
\* before, in entity order; us is the stream of tokens Uuid::new_v4 hands out
RECURSIVE UniqueValues(_, _, _, _, _, _)
UniqueValues(entities, k, format, cnt, us, unique_values) ==
    IF k > Len(entities) THEN [unique_values |-> unique_values, counter |-> cnt]
    ELSE IF HasValue(unique_values, entities[k].value)
         THEN UniqueValues(entities, k + 1, format, cnt, us, unique_values)
         ELSE LET g == generate_placeholder(entities[k].entity_type, format, cnt,
                                            us[Len(unique_values) + 1])
              IN  UniqueValues(entities, k + 1, format, g.counter, us,
                               Append(unique_values,
                                      [original |-> entities[k].value,
                                       placeholder |-> g.placeholder]))

EmptyMapping == [x \in {} |-> ""]

MapInsert(m, k, v) == [x \in DOMAIN m \cup {k} |-> IF x = k THEN v ELSE m[x]]

\* the second loop: placeholder -> original, in the map's iteration order vord
RECURSIVE BuildMapping(_, _, _, _)
BuildMapping(unique_values, vord, k, m) ==
    IF k > Len(vord) THEN m
    ELSE BuildMapping(unique_values, vord, k + 1,
                      MapInsert(m, unique_values[vord[k]].placeholder,
                                unique_values[vord[k]].original))

\* by position: each value is replaced where it is first found only
RECURSIVE ReplaceValues_FirstOccurrence(_, _, _, _)
ReplaceValues_FirstOccurrence(unique_values, vord, k, text) ==
    IF k > Len(vord) THEN text
    ELSE LET original == unique_values[vord[k]].original
             at == Find(text, original, 0)
         IN  ReplaceValues_FirstOccurrence(unique_values, vord, k + 1,
                IF at = -1 THEN text
                ELSE SubSeq(text, 1, at) \o unique_values[vord[k]].placeholder
                        \o SubSeq(text, at + Len(original) + 1, Len(text)))

\* the third loop: replace every occurrence of each value, in the same order
RECURSIVE ReplaceValues(_, _, _, _)
ReplaceValues(unique_values, vord, k, text) ==
    IF k > Len(vord) THEN text
    ELSE ReplaceValues(unique_values, vord, k + 1,
                       Replace(text, unique_values[vord[k]].original,
                               unique_values[vord[k]].placeholder))

DistinctValues(entities) == {entities[i].value : i \in 1..Len(entities)}

\* the text is lower-cased before the values are replaced
Substitute_Lowercased(text, entities, format, cnt, us, vord) ==
    LET u == UniqueValues(entities, 1, format, cnt, us, <<>>)
    IN  [anonymized_text |-> ReplaceValues(u.unique_values, vord, 1, to_lowercase(text)),
         mapping |-> BuildMapping(u.unique_values, vord, 1, EmptyMapping),
         entities |-> entities,
         allocated |-> [i \in 1..Len(u.unique_values) |-> u.unique_values[i].placeholder],
         counter |-> u.counter]

\* anonymize_with_custom after detection has returned its entities
Substitute(text, entities, format, cnt, us, vord) ==
    LET u == UniqueValues(entities, 1, format, cnt, us, <<>>)
    IN  [anonymized_text |-> ReplaceValues(u.unique_values, vord, 1, text),
         mapping |-> BuildMapping(u.unique_values, vord, 1, EmptyMapping),
         entities |-> entities,
         allocated |-> [i \in 1..Len(u.unique_values) |-> u.unique_values[i].placeholder],
         counter |-> u.counter]

\* placeholders.sort_by_key(|p| Reverse(p.len())): a stable sort
RECURSIVE InsertByLen(_, _)
InsertByLen(sorted, p) ==
    IF sorted = <<>> THEN <<p>>
    ELSE IF Len(sorted[Len(sorted)]) >= Len(p) THEN Append(sorted, p)
    ELSE Append(InsertByLen(SubSeq(sorted, 1, Len(sorted) - 1), p), sorted[Len(sorted)])

RECURSIVE SortByLen(_)
SortByLen(ps) ==
    IF ps = <<>> THEN <<>>
    ELSE InsertByLen(SortByLen(SubSeq(ps, 1, Len(ps) - 1)), ps[Len(ps)])

RECURSIVE ReplacePlaceholders(_, _, _, _)
ReplacePlaceholders(placeholders, mapping, k, text) ==
    IF k > Len(placeholders) THEN text
    ELSE ReplacePlaceholders(placeholders, mapping, k + 1,
                             Replace(text, placeholders[k], mapping[placeholders[k]]))

\* the placeholders are taken in the order the map hands them out, unsorted
deanonymize_Unsorted(text, mapping, kord) ==
    ReplacePlaceholders(kord, mapping, 1, text)

\* Anonymizer::deanonymize; kord is the order mapping.keys() hands out the keys
deanonymize(text, mapping, kord) ==
    ReplacePlaceholders(SortByLen(kord), mapping, 1, text)

(***************************************************************************)
(* Inputs                                                                  *)
(***************************************************************************)
\* the counter is capped so that the state space is finite
MaxCounter == 3

\* the tokens Uuid::new_v4().simple() may hand out: lower-case hex digits, cut
\* from 32 digits to 4; one call never draws the same token twice
UuidPool == {"3f9a", "b07c", "e1d4"}

UuidSeqs(n) ==
    {us \in [1..n -> UuidPool] : \A i, j \in 1..n : i # j => us[i] # us[j]}

KindNames ==
    {"email", "EMAIL", "Email", "eMaIl", "phone", "Phone", "ssn", "SSN",
     "credit_card", "Credit_Card", "ip_address", "IP_ADDRESS", "url", "URL",
     "", "invalid", "Invalid", "name", "Name", "NAME", "emails", "e-mail",
     "creditcard", "mail", "Company", "ip address"}

KindLists ==
    {<<>>, <<Email>>, <<Phone>>, <<Email, Email>>, <<Email, Phone>>, <<Email, Ssn>>,
     <<Email, Phone, Url>>, <<IpAddress, CreditCard>>,
     <<Custom("name")>>, <<Email, Custom("Company")>>, <<Custom(""), Phone>>}

Configs ==
    {[DefaultConfig EXCEPT !.placeholder_format = f] :
        f \in {Standard, Short, CustomFormat("[{type}:{counter}]")}}

Texts ==
    {"", "hello", "a@b.cc", "Contact john@x.com", "a@b.cc a@b.cc",
     "a@b.cc a@b.cc a@b.cc2", "a@b.cc x@y.zz", "EMAIL_1 a@b.cc",
     "a@b.cc@b.cc EMAIL_1@b.cc", "1@b.cc@b.cc", "a@b.c|23-45-6789 123-45-6789",
     "Call 555-123-4567 or 555-123", "555-123 555-123 x555-123",
     "555-123@b.cc", "<> a@b.cc <>", "<> John a@b.cc", "see http://a.b/c x", "123-45-6789",
     "IP 10.0.0.1", "1234-5678-9012-3456", "John Johnson", "aaa"}

CustomEntry(entity_type, values) == [entity_type |-> entity_type, values |-> values]

\* Some(&custom_entities): each map is the set of its (kind, values) entries
CustomMaps ==
    {{},
     {CustomEntry(Custom("name"), <<"John">>)},
     {CustomEntry(Custom("n"), <<"aa", "a">>)},
     {CustomEntry(Email, <<"a@b.cc">>)},
     {CustomEntry(Custom("name"), <<"John">>), CustomEntry(Custom("co"), <<"Johnson">>)},
     {CustomEntry(Custom("x"), <<"">>)},
     {CustomEntry(Custom("x"), <<"<>">>)}}

\* the threads that share one engine instance
NumThreads == 2

Threads == 1..NumThreads

\* no thread has a call in flight
NoCalls == [t \in Threads |-> [pc |-> "idle"]]

\* what the threads anonymize, on an instance that numbers its placeholders
ThreadTexts == {"", "a@b.cc a@b.cc", "a@b.cc x@y.zz"}

ThreadKindLists == {<<Email>>}

ThreadConfigs ==
    {[DefaultConfig EXCEPT !.placeholder_format = f] :
        f \in {Short, CustomFormat("[{type}:{counter}]")}}

\* configurations built through AnonymizerConfig::builder: the two flags, the
\* entity cap and templates with and without a counter
PolicyConfigs ==
    {[DefaultConfig EXCEPT !.placeholder_format = Short,
                           !.case_sensitive = cs, !.word_boundary_check = wb] :
        cs \in BOOLEAN, wb \in BOOLEAN}
    \cup {[DefaultConfig EXCEPT !.placeholder_format = Short, !.max_entities = 1],
          DefaultConfig,
          [DefaultConfig EXCEPT !.placeholder_format = CustomFormat("[{type}:{counter}]")],
          [DefaultConfig EXCEPT !.placeholder_format = CustomFormat("[{type}]")]}

PolicyKindLists == {<<>>, <<Email>>}

PolicyTexts == {"", "hello", "a@b.cc x@y.zz", "john John Johnson", "John a@b.cc"}

PolicyCustomMaps ==
    {{},
     {CustomEntry(Custom("name"), <<"John">>)},
     {CustomEntry(Custom("name"), <<"John", "Johnson">>)}}

\* worked cases: literals that overlap, touch or contain one another, a
\* literal at the offset of a pattern match, values inside longer tokens
CaseKindLists == {<<Email>>, <<Phone>>}

CaseConfigs ==
    {[DefaultConfig EXCEPT !.placeholder_format = f] :
        f \in {Standard, Short, CustomFormat("[{type}]")}}

CaseTexts ==
    {"", "Contact john@x.com", "abcde", "a@b.cc", " a@b.cc", "aaa", "<> a <>",
     "a@b.cc a@b.cc a@b.cc2", "Call 555-123-4567 or 555-123", "a@b.cc 1"}

CaseCustomMaps ==
    {{},
     {CustomEntry(Custom("x"), <<"ab", "bcde", "cd">>)},
     {CustomEntry(Custom("name"), <<" a", "a@b">>)},
     {CustomEntry(Custom("n"), <<"aa">>)},
     {CustomEntry(Custom("x"), <<"<>">>)},
     {CustomEntry(Custom("x"), <<"1">>)}}

\* prop_valid_ipv4_detected / prop_invalid_ipv4_not_detected: the octets drawn,
\* at the edges of the alternatives of the pattern
IpOuterOctets == {0, 9, 10, 99, 100, 199, 200, 249, 250, 255}

IpInnerOctets == {0, 99, 255}

IpInvalidOctets == {256, 259, 260, 299, 300, 555, 999}

DottedQuad(a, b, c, d) ==
    ToDecimal(a) \o "." \o ToDecimal(b) \o "." \o ToDecimal(c) \o "." \o ToDecimal(d)

IpTexts ==
    {"Server IP is " \o DottedQuad(a, b, c, d) :
        a \in IpOuterOctets, b \in IpInnerOctets, c \in IpInnerOctets, d \in IpOuterOctets}
    \cup {"Invalid IP: " \o DottedQuad(x, 1, 1, 1) : x \in IpInvalidOctets}

\* what a caller that calls twice works with
RetryKindLists == {<<Email>>, <<Email, Phone>>}

RetryTexts ==
    {"", "hello", "a@b.cc x@y.zz", "555-123@b.cc", "<> John a@b.cc", "John Johnson"}

RetryCustomMaps ==
    {{},
     {CustomEntry(Custom("name"), <<"John">>)},
     {CustomEntry(Custom("name"), <<"John">>), CustomEntry(Custom("co"), <<"Johnson">>)}}

DeanonTexts ==
    {"", "hello", "EMAIL_1", "EMAIL_2 x", "EMAIL_11 EMAIL_1", "EMAIL_1 EMAIL_2",
     "x EMAIL_11"}

MappingOf(pairs) == [p \in {q[1] : q \in pairs} |-> (CHOOSE q \in pairs : q[1] = p)[2]]

DeanonMappings ==
    {MappingOf({}),
     MappingOf({<<"EMAIL_1", "a@b.cc">>}),
     MappingOf({<<"EMAIL_2", "x@y.zz">>}),
     MappingOf({<<"EMAIL_1", "a@b.cc">>, <<"EMAIL_11", "x@y.zz">>}),
     MappingOf({<<"EMAIL_1", "a@b.cc">>, <<"EMAIL_2", "x@y.zz">>})}

(***************************************************************************)
(* The state machine                                                       *)
(***************************************************************************)
Idle == last.op = "none"

\* EntityType::from_str
FromStr(s) ==
    /\ Idle
    /\ last' = [op |-> "from_str", input |-> s, kind |-> from_str(s)]
    /\ UNCHANGED <<phase, patterns, config, counter, calls>>

\* Anonymizer::new / Anonymizer::with_config
WithConfig(entity_types, cfg) ==
    /\ phase = "new"
    /\ Idle
    /\ LET d == DetectorNew(entity_types, 1)
       IN  IF d.ok
           THEN /\ phase' = "ready"
                /\ \E pord \in Orderings(d.patterns) : patterns' = pord
                /\ config' = cfg
                /\ counter' = 0
                /\ last' = [op |-> "construct", entity_types |-> entity_types,
                            result |-> "Ok"]
                /\ UNCHANGED calls
           ELSE /\ phase' = "failed"
                /\ last' = [op |-> "construct", entity_types |-> entity_types,
                            result |-> "InvalidEntityType"]
                /\ UNCHANGED <<patterns, config, counter, calls>>

\* the pattern map built anew, hence iterated in a fresh order, on every call
DetectOutcomes_FreshOrder(text, custom) ==
    {detect(text, pord, cord) :
        pord \in Orderings(Range(patterns)), cord \in Orderings(custom)}

\* what detect may return, over the orders in which the caller's map iterates
DetectOutcomes(text, custom) ==
    {detect(text, patterns, cord) : cord \in Orderings(custom)}

\* what the rest of anonymize_with_custom may return, over the tokens drawn
\* and the order in which unique_values iterates
SubstituteOutcomes(text, entities) ==
    {Substitute(text, entities, config.placeholder_format, counter, us, vord) :
        us \in UuidSeqs(Len(entities)),
        vord \in Orderings(1..Len(UniqueValues(entities, 1, Short, 0, <<>>, <<>>).unique_values))}

\* no early return for the empty text
is_empty_Never(text) == FALSE

\* text.is_empty()
is_empty(text) == text = ""

\* Anonymizer::anonymize_with_custom(text, custom); custom is the set of the
\* map's entries, empty for None
AnonymizeCall(op, text, custom) ==
    /\ phase = "ready"
    /\ Idle
    /\ IF is_empty(text)
       THEN /\ last' = [op |-> op, text |-> text, custom |-> custom, status |-> "ok",
                        anonymized_text |-> "", mapping |-> EmptyMapping,
                        entities |-> <<>>, allocated |-> <<>>, before |-> counter]
            /\ UNCHANGED counter
       ELSE \E d \in DetectOutcomes(text, custom) :
              IF d.panic
              THEN /\ last' = [op |-> op, text |-> text, custom |-> custom,
                               status |-> "panic", before |-> counter]
                   /\ UNCHANGED counter
              ELSE \E r \in SubstituteOutcomes(text, d.entities) :
                        /\ r.counter <= MaxCounter
                        /\ last' = [op |-> op, text |-> text, custom |-> custom,
                                    status |-> "ok",
                                    anonymized_text |-> r.anonymized_text,
                                    mapping |-> r.mapping,
                                    entities |-> r.entities,
                                    allocated |-> r.allocated,
                                    before |-> counter]
                        /\ counter' = r.counter
    /\ UNCHANGED <<phase, patterns, config, calls>>

\* a custom map of the instance's own handed on in the place of None
Anonymize_OwnCustom(text) ==
    AnonymizeCall("anonymize", text, {CustomEntry(Custom("name"), <<"John">>)})

\* Anonymizer::anonymize
Anonymize(text) == AnonymizeCall("anonymize", text, {})

AnonymizeWithCustom(text, custom) == AnonymizeCall("anonymize_with_custom", text, custom)

\* Anonymizer::deanonymize on a text and a mapping of the caller's
Deanonymize(text, mapping) ==
    /\ phase = "ready"
    /\ Idle
    /\ \E restored \in {deanonymize(text, mapping, kord) : kord \in Orderings(DOMAIN mapping)} :
         last' = [op |-> "deanonymize", text |-> text, mapping |-> mapping,
                  restored |-> restored]
    /\ UNCHANGED <<phase, patterns, config, counter, calls>>

IsOutcome == last.op \in {"anonymize", "anonymize_with_custom"} /\ last.status = "ok"

\* Anonymizer::deanonymize on the outcome the last anonymize call returned
DeanonymizeOutcome ==
    /\ phase = "ready"
    /\ IsOutcome
    /\ \E restored \in {deanonymize(last.anonymized_text, last.mapping, kord) :
                          kord \in Orderings(DOMAIN last.mapping)} :
         last' = [op |-> "roundtrip", text |-> last.text, custom |-> last.custom,
                  anonymized_text |-> last.anonymized_text, mapping |-> last.mapping,
                  restored |-> restored]
    /\ UNCHANGED <<phase, patterns, config, counter, calls>>

\* the caller, holding the outcome of one call, calls op(text, custom) on the
\* same instance with the text of that call and keeps both outcomes
SecondCall(label, op, custom) ==
    /\ phase = "ready"
    /\ IsOutcome
    /\ LET first == [op |-> last.op, anonymized_text |-> last.anonymized_text,
                     mapping |-> last.mapping, entities |-> last.entities]
       IN  IF is_empty(last.text)
           THEN /\ last' = [op |-> label, text |-> last.text, custom |-> custom,
                            status |-> "ok", first |-> first,
                            second |-> [op |-> op, anonymized_text |-> "",
                                        mapping |-> EmptyMapping, entities |-> <<>>]]
                /\ UNCHANGED counter
           ELSE \E d \in DetectOutcomes(last.text, custom) :
                  IF d.panic
                  THEN /\ last' = [op |-> label, text |-> last.text, custom |-> custom,
                                   status |-> "panic", first |-> first]
                       /\ UNCHANGED counter
                  ELSE \E r \in SubstituteOutcomes(last.text, d.entities) :
                            /\ r.counter <= MaxCounter
                            /\ last' = [op |-> label, text |-> last.text,
                                        custom |-> custom, status |-> "ok",
                                        first |-> first,
                                        second |-> [op |-> op,
                                                    anonymized_text |-> r.anonymized_text,
                                                    mapping |-> r.mapping,
                                                    entities |-> r.entities]]
                            /\ counter' = r.counter
    /\ UNCHANGED <<phase, patterns, config, calls>>

\* the same call once more, with the same text and the same custom map
Retry == SecondCall("retry", last.op, last.custom)

\* test_backward_compatibility: anonymize(text), then anonymize_with_custom(text, None)
WithCustomNone ==
    /\ last.op = "anonymize"
    /\ SecondCall("with_custom_none", "anonymize_with_custom", {})

\* the caller drops the value the last call returned
Release ==
    /\ ~Idle
    /\ last' = [op |-> "none"]
    /\ UNCHANGED <<phase, patterns, config, counter, calls>>

(***************************************************************************)
(* Concurrent calls on one shared instance (&self, Send + Sync)            *)
(***************************************************************************)
\* thread t enters anonymize(text): the early return, or detection, which
\* reads the immutable detector only
CallBegin(t, text) ==
    /\ phase = "ready"
    /\ calls[t].pc = "idle"
    /\ IF is_empty(text)
       THEN calls' = [calls EXCEPT ![t] =
                        [pc |-> "done", text |-> text, entities |-> <<>>,
                         unique_values |-> <<>>, anonymized_text |-> "",
                         mapping |-> EmptyMapping]]
       ELSE \E d \in DetectOutcomes(text, {}) :
                /\ ~d.panic
                /\ calls' = [calls EXCEPT ![t] =
                                [pc |-> "allocate", text |-> text, entities |-> d.entities,
                                 k |-> 1, unique_values |-> <<>>]]
    /\ UNCHANGED <<phase, patterns, config, counter, last>>

\* one turn of the unique-values loop in thread t: the fetch_add inside
\* generate_placeholder is its only access to shared state
CallAllocate(t) ==
    /\ calls[t].pc = "allocate"
    /\ calls[t].k <= Len(calls[t].entities)
    /\ LET c == calls[t]
           entity == c.entities[c.k]
       IN  IF HasValue(c.unique_values, entity.value)
           THEN /\ calls' = [calls EXCEPT ![t].k = c.k + 1]
                /\ UNCHANGED counter
           ELSE \E uuid \in UuidPool :
                    LET g == generate_placeholder(entity.entity_type,
                                                  config.placeholder_format, counter, uuid)
                    IN  /\ calls' = [calls EXCEPT
                                        ![t].k = c.k + 1,
                                        ![t].unique_values =
                                            Append(c.unique_values,
                                                   [original |-> entity.value,
                                                    placeholder |-> g.placeholder])]
                        /\ counter' = g.counter
    /\ UNCHANGED <<phase, patterns, config, last>>

\* the mapping and replace loops of thread t, on its own data, and the return
CallReturn(t) ==
    /\ calls[t].pc = "allocate"
    /\ calls[t].k > Len(calls[t].entities)
    /\ LET c == calls[t]
       IN  \E vord \in Orderings(1..Len(c.unique_values)) :
               calls' = [calls EXCEPT ![t] =
                           [pc |-> "done", text |-> c.text, entities |-> c.entities,
                            unique_values |-> c.unique_values,
                            anonymized_text |-> ReplaceValues(c.unique_values, vord, 1, c.text),
                            mapping |-> BuildMapping(c.unique_values, vord, 1, EmptyMapping)]]
    /\ UNCHANGED <<phase, patterns, config, counter, last>>

(***************************************************************************)
(* Properties                                                              *)
(***************************************************************************)
IsAnonymize == last.op = "anonymize" /\ last.status = "ok"

\* C1: round trip -- deanonymize applied to the anonymized_text and the mapping
\* that anonymize(text) returned gives back text exactly, for every text, every
\* placeholder format and any engine instance, fresh or used
C1_RoundTrip ==
    (last.op = "roundtrip" /\ last.custom = {}) => last.restored = last.text

\* C2: no leakage -- the value of every entity anonymize returned does not occur
\* in anonymized_text unless it is a substring of an allocated placeholder, and
\* it is among the values of the mapping
C2_NoLeakage ==
    IsAnonymize =>
        \A i \in 1..Len(last.entities) :
            LET v == last.entities[i].value
            IN  /\ (\A p \in DOMAIN last.mapping : ~Contains(p, v))
                       => ~Contains(last.anonymized_text, v)
                /\ v \in Range(last.mapping)

\* the entities of the last outcome that carry the value v
Detections(v) == {i \in 1..Len(last.entities) : last.entities[i].value = v}

PlaceholdersOf(v) == {p \in DOMAIN last.mapping : last.mapping[p] = v}

C4_Injective ==
    IsOutcome => Cardinality(DOMAIN last.mapping) = Cardinality(Range(last.mapping))

\* an outcome with two mapping entries, one of them for a value detected twice
C4_Witness ==
    /\ IsOutcome
    /\ Cardinality(DOMAIN last.mapping) = 2
    /\ \E v \in DistinctValues(last.entities) : Cardinality(Detections(v)) = 2

\* C5: position validity -- every returned entity, from a pattern or from a
\* custom value, has 0 <= start < end <= len(text) and text[start..end] = value
C5_PositionsValid ==
    IsOutcome =>
        \A i \in 1..Len(last.entities) :
            LET e == last.entities[i]
            IN  /\ 0 <= e.start
                /\ e.start < e.end
                /\ e.end <= Len(last.text)
                /\ SubSeq(last.text, e.start + 1, e.end) = e.value

\* an outcome with a pattern entity and a custom entity, past a two-byte character
C5_Witness ==
    /\ IsOutcome
    /\ \E i, j \in 1..Len(last.entities) :
           /\ last.entities[i].entity_type.tag = "Custom"
           /\ last.entities[j].entity_type.tag # "Custom"
    /\ \E i \in 1..Len(last.entities) :
           /\ last.entities[i].start > 1
           /\ Contains(SubSeq(last.text, 1, last.entities[i].start), ContByte)

\* C6: overlap-freedom and order -- the returned entities are sorted by start
\* and no two of their [start, end) intervals overlap
C6_SortedDisjoint ==
    IsOutcome =>
        \A i, j \in 1..Len(last.entities) :
            i < j => /\ last.entities[i].start <= last.entities[j].start
                     /\ last.entities[i].end <= last.entities[j].start

\* the candidates of the call overlapped: some were dropped, two were kept
C6_Witness ==
    /\ IsOutcome
    /\ Len(last.entities) >= 2
    /\ \E cord \in Orderings(last.custom) :
           Len(DetectPatterns(last.text, patterns, 1))
             + Len(DetectCustom(last.text, cord, 1).entities) > Len(last.entities)

IsAnonymizeCall == last.op \in {"anonymize", "anonymize_with_custom"}

\* C7: empty input -- anonymizing "" returns anonymized_text "", an empty
\* mapping and no entity, whatever the kinds, the configuration and the custom map
C7_EmptyInput ==
    (IsAnonymizeCall /\ last.text = "") =>
        /\ last.status = "ok"
        /\ last.anonymized_text = ""
        /\ last.mapping = EmptyMapping
        /\ last.entities = <<>>

\* the empty text went through anonymize_with_custom with an empty custom value
C7_Witness ==
    /\ last.op = "anonymize_with_custom"
    /\ last.text = ""
    /\ \E c \in last.custom : \E k \in 1..Len(c.values) : c.values[k] = ""
    /\ patterns # <<>>

\* the space-separated words of a text
RECURSIVE Words(_)
Words(s) ==
    LET k == Find(s, " ", 0)
    IN  IF k = -1 THEN {s}
        ELSE {SubSeq(s, 1, k)} \cup Words(SubSeq(s, k + 2, Len(s)))

IsDigits(s) == s # "" /\ \A i \in 1..Len(s) : SubSeq(s, i, i) \in AsciiDigit

\* a word of the shape the Short format gives a built-in kind: PREFIX_n
IsShortPlaceholder(w) ==
    \E k \in BuiltIn :
        LET pre == type_prefix(k) \o "_"
        IN  /\ Len(w) > Len(pre)
            /\ SubSeq(w, 1, Len(pre)) = pre
            /\ IsDigits(SubSeq(w, Len(pre) + 1, Len(w)))

\* C8: deanonymize never fails, and a placeholder that occurs in the text and
\* is absent from the mapping is still there, unchanged, in the output
C8_UnmappedUnchanged ==
    last.op = "deanonymize" =>
        \A w \in Words(last.text) :
            (IsShortPlaceholder(w) /\ w \notin DOMAIN last.mapping)
                => w \in Words(last.restored)

\* C9: construction returns the InvalidEntityType error exactly when a Custom
\* kind is requested, and succeeds for every list of built-in kinds
C9_Construction ==
    last.op = "construct" =>
        LET custom == \E i \in 1..Len(last.entity_types) :
                          last.entity_types[i].tag = "Custom"
        IN  /\ custom => last.result = "InvalidEntityType" /\ phase = "failed"
            /\ ~custom => last.result = "Ok" /\ phase = "ready"
                          /\ Range(patterns) = {last.entity_types[i] :
                                                   i \in 1..Len(last.entity_types)}
                          /\ Len(patterns) = Cardinality(Range(patterns))

\* a Custom kind after a built-in one was refused
C9_Witness ==
    /\ last.op = "construct"
    /\ Len(last.entity_types) = 2
    /\ last.entity_types[1].tag = "Email"
    /\ last.entity_types[2].tag = "Custom"
    /\ last.result = "InvalidEntityType"

SameLetter(c, d) ==
    \/ c = d
    \/ /\ IndexIn(Lower, d, 1) # 0
       /\ IndexIn(Upper, c, 1) = IndexIn(Lower, d, 1)

\* s is name, in any letter case
IsNameIgnoringCase(s, name) ==
    /\ Len(s) = Len(name)
    /\ \A i \in 1..Len(s) : SameLetter(SubSeq(s, i, i), SubSeq(name, i, i))

BuiltInNames ==
    {<<"email", Email>>, <<"phone", Phone>>, <<"ssn", Ssn>>,
     <<"credit_card", CreditCard>>, <<"ip_address", IpAddress>>, <<"url", Url>>}

RECURSIVE NumberIn(_, _)
NumberIn(p, acc) ==
    IF p = "" THEN acc
    ELSE LET k == IndexIn(Digits, SubSeq(p, 1, 1), 1)
         IN  NumberIn(Tail(p), IF k = 0 THEN acc ELSE 10 * acc + (k - 1))

\* C11: under the Short format the counter starts at 0 with the instance, and
\* the placeholders one anonymize call allocates carry, in allocation order,
\* the numbers counter+1, counter+2, ..., after which the counter holds the
\* last of them: the first number is 1, every later one is strictly larger
\* than all before it, and no number is used again in a later call
C11_ShortNumbers ==
    [][/\ (phase = "new" /\ phase' = "ready") => counter' = 0
       /\ (config.placeholder_format = Short /\ ~IsOutcome /\ IsOutcome') =>
              /\ \A i \in 1..Len(last'.allocated) :
                     NumberIn(last'.allocated[i], 0) = counter + i
              /\ counter' = counter + Len(last'.allocated)
              /\ counter' >= counter]_vars

\* a later call on a used instance allocated the numbers 2 and 3
C11_Witness ==
    /\ config.placeholder_format = Short
    /\ IsOutcome
    /\ last.before = 1
    /\ Len(last.allocated) = 2
    /\ NumberIn(last.allocated[1], 0) = 2
    /\ NumberIn(last.allocated[2], 0) = 3

\* the placeholders thread t has allocated in its call so far
AllocationsOf(t) == IF calls[t].pc = "idle" THEN <<>> ELSE calls[t].unique_values

RECURSIVE TotalAllocations(_)
TotalAllocations(T) ==
    IF T = {} THEN 0
    ELSE LET t == CHOOSE x \in T : TRUE
         IN  Len(AllocationsOf(t)) + TotalAllocations(T \ {t})

\* C12: however the calls of the threads interleave under the Short or the
\* Custom format, no two allocations carry the same counter number, and the
\* counter equals the number of allocations made, so also when all have returned
C12_AtomicCounter ==
    /\ \A t, u \in Threads :
          \A i \in 1..Len(AllocationsOf(t)), j \in 1..Len(AllocationsOf(u)) :
             (t # u \/ i # j) =>
                NumberIn(AllocationsOf(t)[i].placeholder, 0)
                    # NumberIn(AllocationsOf(u)[j].placeholder, 0)
    /\ counter = TotalAllocations(Threads)

\* two calls have returned, and one allocated between two allocations of the other
C12_Witness ==
    \E t, u \in Threads :
        /\ t # u
        /\ calls[t].pc = "done"
        /\ calls[u].pc = "done"
        /\ Len(calls[t].unique_values) = 2
        /\ Len(calls[u].unique_values) >= 1
        /\ NumberIn(calls[t].unique_values[1].placeholder, 0)
              < NumberIn(calls[u].unique_values[1].placeholder, 0)
        /\ NumberIn(calls[u].unique_values[1].placeholder, 0)
              < NumberIn(calls[t].unique_values[2].placeholder, 0)

\* C14: entity cap -- with max_entities n > 0 a call returns at most n entities
C14_EntityCap ==
    (IsOutcome /\ config.max_entities > 0) =>
        Len(last.entities) <= config.max_entities

\* the values of the custom map given to the last call, with their kinds
CustomPairs ==
    UNION {{<<c.entity_type, c.values[n]>> : n \in 1..Len(c.values)} : c \in last.custom}

\* the offsets at which value occurs in text, byte for byte
OccurrencesOf(text, value) ==
    {i \in 0..(Len(text) - Len(value)) : SubSeq(text, i + 1, i + Len(value)) = value}

C16_WordBoundary ==
    (IsOutcome /\ config.word_boundary_check) =>
        \A k \in 1..Len(last.entities) :
            <<last.entities[k].entity_type, last.entities[k].value>> \in CustomPairs =>
                /\ IsWordBoundary(last.text, last.entities[k].start)
                /\ IsWordBoundary(last.text, last.entities[k].end)

\* C17: all or nothing -- for every text and every custom map, also one with
\* an empty value or a value that starts with a multi-byte character, the
\* call returns a complete outcome or an error and never aborts
C17_NoAbort ==
    IsAnonymizeCall => last.status \in {"ok", "error"}

\* C18: one placeholder per distinct value under every format -- the mapping
\* has as many entries as the returned entities have distinct values, and its
\* values are exactly those values
C18_OnePerValue ==
    IsOutcome =>
        /\ Cardinality(DOMAIN last.mapping) = Cardinality(DistinctValues(last.entities))
        /\ Range(last.mapping) = DistinctValues(last.entities)

\* C19: text without PII is unchanged -- when the call returns no entity,
\* anonymized_text is the input text and the mapping is empty
C19_NoPiiNoChange ==
    (IsOutcome /\ last.entities = <<>>) =>
        /\ last.anonymized_text = last.text
        /\ last.mapping = EmptyMapping

\* a text with capitals and no entity went through an instance with patterns
C19_Witness ==
    /\ IsOutcome
    /\ patterns # <<>>
    /\ last.text = "John Johnson"
    /\ last.entities = <<>>
    /\ last.anonymized_text = "John Johnson"

BothReturned(label) == last.op = label /\ last.status = "ok"

\* C13: determinism -- anonymize called twice with the same text and the same
\* custom map on one instance returns the same anonymized_text, the same
\* mapping and the same entities
C13_Deterministic ==
    BothReturned("retry") =>
        /\ last.second.anonymized_text = last.first.anonymized_text
        /\ last.second.mapping = last.first.mapping
        /\ last.second.entities = last.first.entities

\* C13 as amended: anonymize(text) called twice on one instance returns the
\* same entities and, under the Standard and Short formats, mappings with the
\* same original values; under the Short format no placeholder of the first
\* call is allocated again by the second
C13_SameDetection ==
    (BothReturned("retry") /\ last.first.op = "anonymize") =>
        /\ last.second.entities = last.first.entities
        /\ config.placeholder_format \in {Standard, Short} =>
              Range(last.second.mapping) = Range(last.first.mapping)
        /\ config.placeholder_format = Short =>
              DOMAIN last.second.mapping \cap DOMAIN last.first.mapping = {}

\* the retried text is one on which two patterns match from the same offset
C13_Witness ==
    /\ BothReturned("retry")
    /\ last.first.op = "anonymize"
    /\ Len(patterns) = 2
    /\ Len(last.first.entities) = 1
    /\ Len(DetectPatterns(last.text, patterns, 1)) = 2
    /\ last.second.anonymized_text # last.first.anonymized_text

\* C20: anonymize(text) and anonymize_with_custom(text, None) return the same
\* entities (kinds, values, positions) and mappings of the same size
C20_SameAsWithCustomNone ==
    BothReturned("with_custom_none") =>
        /\ last.second.entities = last.first.entities
        /\ Cardinality(DOMAIN last.second.mapping) = Cardinality(DOMAIN last.first.mapping)

\* both calls returned two entities and two mapping entries
C20_Witness ==
    /\ BothReturned("with_custom_none")
    /\ Len(last.first.entities) = 2
    /\ Len(last.second.entities) = 2
    /\ Cardinality(DOMAIN last.second.mapping) = 2

\* C21 (as stated): an Email-only engine given "Contact john@x.com" returns the
\* one entity {Email, "john@x.com", 8, 19} and the text "Contact EMAIL_<token>"
C21_Example ==
    (IsAnonymize /\ last.text = "Contact john@x.com" /\ Range(patterns) = {Email}
        /\ config.placeholder_format \in {Standard, Short}) =>
        /\ last.entities = <<[entity_type |-> Email, value |-> "john@x.com",
                              start |-> 8, end |-> 19]>>
        /\ \E p \in DOMAIN last.mapping :
             /\ SubSeq(p, 1, 6) = "EMAIL_"
             /\ last.anonymized_text = "Contact " \o p

\* C21 (amended): the entity returned is {Email, "john@x.com", 8, 18}, end being
\* the offset one past the last byte of the value; the text returned is
\* "Contact " followed by the one placeholder, which begins with EMAIL_ and maps
\* to "john@x.com"
C21_ExampleEnd18 ==
    (IsAnonymize /\ last.text = "Contact john@x.com" /\ Range(patterns) = {Email}
        /\ config.placeholder_format \in {Standard, Short}) =>
        /\ last.entities = <<[entity_type |-> Email, value |-> "john@x.com",
                              start |-> 8, end |-> 18]>>
        /\ \E p \in DOMAIN last.mapping :
             /\ DOMAIN last.mapping = {p}
             /\ last.mapping[p] = "john@x.com"
             /\ SubSeq(p, 1, 6) = "EMAIL_"
             /\ Len(p) > 6
             /\ last.anonymized_text = "Contact " \o p

\* the example has been anonymized by an Email-only engine under the default format
C21_Witness ==
    /\ IsAnonymize
    /\ last.text = "Contact john@x.com"
    /\ Range(patterns) = {Email}
    /\ config.placeholder_format = Standard
    /\ Len(last.entities) = 1
    /\ last.anonymized_text # last.text

HasPrefix(s, p) == Len(s) >= Len(p) /\ SubSeq(s, 1, Len(p)) = p

\* C22: an IpAddress engine finds in "Server IP is a.b.c.d", every octet in
\* 0..255, exactly one entity, whose value is a.b.c.d, and in
\* "Invalid IP: x.1.1.1", x in 256..999, no entity
C22_IpRange ==
    (IsAnonymize /\ Range(patterns) = {IpAddress}) =>
        /\ \A a \in IpOuterOctets, b \in IpInnerOctets, c \in IpInnerOctets,
              d \in IpOuterOctets :
             last.text = "Server IP is " \o DottedQuad(a, b, c, d) =>
                /\ Len(last.entities) = 1
                /\ last.entities[1].entity_type = IpAddress
                /\ last.entities[1].value = DottedQuad(a, b, c, d)
        /\ HasPrefix(last.text, "Invalid IP: ") => last.entities = <<>>

\* an address whose octets take each alternative of the pattern was found
C22_Witness ==
    /\ IsAnonymize
    /\ Range(patterns) = {IpAddress}
    /\ last.text = "Server IP is 255.99.0.249"
    /\ Len(last.entities) = 1
    /\ last.entities[1].value = "255.99.0.249"

\* the candidates detect pushes before it sorts: the pattern matches, then the
\* literal matches of the custom map iterated in the order cord
Candidates(cord) ==
    DetectPatterns(last.text, patterns, 1) \o DetectCustom(last.text, cord, 1).entities

\* the place of candidate i after a stable sort by start
RankByStart(raw, i) ==
    1 + Cardinality({j \in 1..Len(raw) :
                        \/ raw[j].start < raw[i].start
                        \/ raw[j].start = raw[i].start /\ j < i})

StableByStart(raw) ==
    [r \in 1..Len(raw) |-> raw[CHOOSE i \in 1..Len(raw) : RankByStart(raw, i) = r]]

\* the last index of K before i
LastKept(K, i) == CHOOSE j \in K : j < i /\ \A n \in K : n < i => n <= j

\* the candidates at the indices of K, in order
Selected(c, K) ==
    [r \in 1..Cardinality(K) |->
        c[CHOOSE i \in K : Cardinality({j \in K : j <= i}) = r]]

\* C23: overlap resolution is greedy by earliest start -- of the candidates,
\* stable-sorted by start, the first is kept and a later one is kept exactly
\* when it starts at or after the end of the last kept one, whatever the
\* lengths of the candidates
C23_GreedyEarliest ==
    IsOutcome /\ last.text # "" =>
        \E cord \in Orderings(last.custom) :
            LET c == StableByStart(Candidates(cord))
            IN  \E K \in SUBSET (1..Len(c)) :
                    /\ c # <<>> => 1 \in K
                    /\ \A i \in 2..Len(c) :
                         i \in K <=> c[i].start >= c[LastKept(K, i)].end
                    /\ last.entities = Selected(c, K)

\* "ab" at 0 was kept, the longer "bcde" at 1, which overlaps it, was dropped,
\* and "cd" at 2, which begins where "ab" ends, was kept
C23_Witness ==
    /\ IsOutcome
    /\ last.text = "abcde"
    /\ Len(last.entities) = 2
    /\ last.entities[1].value = "ab"
    /\ last.entities[2].value = "cd"
    /\ \E cord \in Orderings(last.custom) :
         \E i \in 1..Len(Candidates(cord)) :
            /\ Candidates(cord)[i].value = "bcde"
            /\ Candidates(cord)[i].start = 1

\* the pairs (pattern match, literal match) that start at the same offset
TiedPairs(cord) ==
    {pq \in Range(DetectPatterns(last.text, patterns, 1))
                \X Range(DetectCustom(last.text, cord, 1).entities) :
        pq[1].start = pq[2].start}

\* C24 (as stated): when a custom literal match and a built-in pattern match
\* start at the same offset, exactly one of them is kept, the built-in one
C24_TieKeepsBuiltIn ==
    IsOutcome /\ last.text # "" =>
        \A cord \in Orderings(last.custom) : \A pq \in TiedPairs(cord) :
            /\ pq[1] \in Range(last.entities)
            /\ pq[2] \notin Range(last.entities)

\* C24 (amended): when a custom literal match and a built-in pattern match
\* start at the same offset, the custom one is never kept, and the built-in one
\* is kept exactly when no other kept entity covers that offset; so at most
\* one of the two is kept, and none when an earlier kept candidate reaches
\* past the offset
C24_TieDropsCustom ==
    IsOutcome /\ last.text # "" =>
        \A cord \in Orderings(last.custom) : \A pq \in TiedPairs(cord) :
            /\ pq[2] \notin Range(last.entities)
            /\ pq[1] \in Range(last.entities)
                 <=> ~\E e \in Range(last.entities) :
                        /\ e # pq[1]
                        /\ e.start <= pq[1].start
                        /\ pq[1].start < e.end

\* the address and the literal "a@b" both start at offset 0 and the address
\* alone was returned
C24_Witness ==
    /\ IsOutcome
    /\ last.text = "a@b.cc"
    /\ \E cord \in Orderings(last.custom) :
         \E pq \in TiedPairs(cord) : pq[2].value = "a@b" /\ pq[1].start = 0
    /\ Len(last.entities) = 1
    /\ last.entities[1].entity_type = Email

\* C25: the custom matcher emits one candidate for every occurrence of every
\* literal of the custom map, occurrences that overlap one another included
\* ("aa" in "aaa" gives candidates at 0 and 1)
C25_EveryOccurrence ==
    (IsAnonymizeCall /\ last.text # "") =>
        \A p \in CustomPairs : \A i \in OccurrencesOf(last.text, p[2]) :
            /\ last.status = "ok"
            /\ \A cord \in Orderings(last.custom) :
                 [entity_type |-> p[1], value |-> p[2], start |-> i,
                  end |-> i + Len(p[2])] \in Range(Candidates(cord))

\* the words of s, in order
RECURSIVE SplitWords(_)
SplitWords(s) ==
    LET i == Find(s, " ", 0)
    IN  IF i = -1 THEN <<s>>
        ELSE <<SubSeq(s, 1, i)>> \o SplitWords(SubSeq(s, i + 2, Len(s)))

RECURSIVE JoinWords(_)
JoinWords(ws) ==
    IF ws = <<>> THEN ""
    ELSE IF Len(ws) = 1 THEN ws[1]
    ELSE ws[1] \o " " \o JoinWords(Tail(ws))

\* one key of the mapping is a literal part of another, longer key
HasNestedKeys(mapping) ==
    \E p \in DOMAIN mapping, q \in DOMAIN mapping : p # q /\ Contains(q, p)

\* every word of text is a key of the mapping or has no key in it
WordsAreKeysOrFree(text, mapping) ==
    \A i \in 1..Len(SplitWords(text)) :
        \/ SplitWords(text)[i] \in DOMAIN mapping
        \/ \A k \in DOMAIN mapping : ~Contains(SplitWords(text)[i], k)

\* C26: deanonymize takes the placeholders longest first -- when one mapped
\* placeholder is part of a longer mapped one (EMAIL_1 and EMAIL_11), every
\* occurrence of the longer one is replaced by the longer one's own value and
\* every occurrence of the shorter one by the shorter one's: word for word,
\* the text restored is the text with each key replaced by its value
C26_LongestFirst ==
    (last.op = "deanonymize" /\ HasNestedKeys(last.mapping)
        /\ WordsAreKeysOrFree(last.text, last.mapping)) =>
        last.restored =
            JoinWords([i \in 1..Len(SplitWords(last.text)) |->
                          IF SplitWords(last.text)[i] \in DOMAIN last.mapping
                          THEN last.mapping[SplitWords(last.text)[i]]
                          ELSE SplitWords(last.text)[i]])

\* "EMAIL_11 EMAIL_1" was restored with both placeholders mapped
C26_Witness ==
    /\ last.op = "deanonymize"
    /\ last.text = "EMAIL_11 EMAIL_1"
    /\ DOMAIN last.mapping = {"EMAIL_1", "EMAIL_11"}
    /\ last.restored = "x@y.zz a@b.cc"

\* C27: an anonymize call under Short or Custom(template) raises the counter by
\* exactly the number of distinct values among the entities it returns, also
\* when the template has no {counter} in it; under Standard, for the empty
\* text, and in deanonymize the counter stays as it is
C27_CounterEffects ==
    [][/\ (Idle /\ IsAnonymizeCall' /\ last'.status = "ok") =>
            counter' = counter
                        + (IF config.placeholder_format.tag = "Standard" THEN 0
                           ELSE Cardinality(DistinctValues(last'.entities)))
       /\ (last' # last /\ last'.op \in {"deanonymize", "roundtrip"}) =>
            counter' = counter]_vars

\* a call under the template "[{type}]", which has no {counter}, returned two
\* distinct values and raised the counter by two
C27_Witness ==
    /\ IsOutcome
    /\ config.placeholder_format = CustomFormat("[{type}]")
    /\ Cardinality(DistinctValues(last.entities)) = 2
    /\ counter = last.before + 2

\* the distinct values of the entities, in the order in which they first occur
RECURSIVE FirstSeen(_)
FirstSeen(es) ==
    IF es = <<>> THEN <<>>
    ELSE LET r == FirstSeen(SubSeq(es, 1, Len(es) - 1))
         IN  IF es[Len(es)].value \in Range(r) THEN r
             ELSE Append(r, es[Len(es)].value)

\* the number of times the placeholder allocated n-th occurs in the text returned
PlaceholderCount(n) == Cardinality(OccurrencesOf(last.anonymized_text, last.allocated[n]))

RECURSIVE ReplacedInTurn(_, _, _, _)
ReplacedInTurn(vals, phs, ord, text) ==
    IF ord = <<>> THEN text
    ELSE ReplacedInTurn(vals, phs, Tail(ord),
                        Replace(text, vals[Head(ord)], phs[Head(ord)]))

\* the occurrences of value in text do not overlap one another
Separate(text, value) ==
    \A i \in OccurrencesOf(text, value), j \in OccurrencesOf(text, value) :
        i < j => i + Len(value) <= j

C29_PlaceholdersPresent ==
    IsOutcome =>
        \A p \in DOMAIN last.mapping : Contains(last.anonymized_text, p)

\* C30: round trip with custom values under Short -- for every text and every
\* custom map of non-empty literals, deanonymize applied to what
\* anonymize_with_custom returned gives the text back, also when a custom value
\* is part of a placeholder allocated in the same call ("1" next to EMAIL_1)
C30_CustomRoundTrip ==
    (/\ last.op = "roundtrip"
     /\ config.placeholder_format = Short
     /\ last.custom # {}
     /\ \A p \in CustomPairs : p[2] # "") =>
        last.restored = last.text

Init ==
    /\ phase = "new"
    /\ patterns = <<>>
    /\ config = DefaultConfig
    /\ counter = 0
    /\ last = [op |-> "none"]
    /\ calls = NoCalls

Next ==
    \/ \E s \in KindNames : FromStr(s)
    \/ \E entity_types \in KindLists, cfg \in Configs : WithConfig(entity_types, cfg)
    \/ \E text \in Texts : Anonymize(text)
    \/ \E text \in Texts, custom \in CustomMaps : AnonymizeWithCustom(text, custom)
    \/ \E text \in DeanonTexts, mapping \in DeanonMappings : Deanonymize(text, mapping)
    \/ DeanonymizeOutcome
    \/ Release

Spec == Init /\ [][Next]_vars

NextPolicy ==
    \/ \E entity_types \in PolicyKindLists, cfg \in PolicyConfigs :
          WithConfig(entity_types, cfg)
    \/ \E text \in PolicyTexts, custom \in PolicyCustomMaps :
          AnonymizeWithCustom(text, custom)
    \/ Release

SpecPolicy == Init /\ [][NextPolicy]_vars

NextCases ==
    \/ \E entity_types \in CaseKindLists, cfg \in CaseConfigs :
          WithConfig(entity_types, cfg)
    \/ \E text \in CaseTexts : Anonymize(text)
    \/ \E text \in CaseTexts, custom \in CaseCustomMaps :
          AnonymizeWithCustom(text, custom)
    \/ \E text \in DeanonTexts, mapping \in DeanonMappings : Deanonymize(text, mapping)
    \/ DeanonymizeOutcome
    \/ Release

SpecCases == Init /\ [][NextCases]_vars

NextIp ==
    \/ WithConfig(<<IpAddress>>, DefaultConfig)
    \/ \E text \in IpTexts : Anonymize(text)
    \/ Release

SpecIp == Init /\ [][NextIp]_vars

NextRetry ==
    \/ \E entity_types \in RetryKindLists, cfg \in Configs : WithConfig(entity_types, cfg)
    \/ \E text \in RetryTexts : Anonymize(text)
    \/ \E text \in RetryTexts, custom \in RetryCustomMaps : AnonymizeWithCustom(text, custom)
    \/ Retry
    \/ WithCustomNone
    \/ Release

SpecRetry == Init /\ [][NextRetry]_vars

\* an instance that numbers its placeholders, built and handed to the threads
InitThreads ==
    /\ phase = "ready"
    /\ \E entity_types \in ThreadKindLists :
           patterns \in Orderings(DetectorNew(entity_types, 1).patterns)
    /\ config \in ThreadConfigs
    /\ counter = 0
    /\ last = [op |-> "none"]
    /\ calls = NoCalls

NextThreads ==
    \/ \E t \in Threads, text \in ThreadTexts : CallBegin(t, text)
    \/ \E t \in Threads : CallAllocate(t)
    \/ \E t \in Threads : CallReturn(t)

SpecThreads == InitThreads /\ [][NextThreads]_vars

====
